---- MODULE Spec2Model ----
(***************************************************************************)
(* Parking lot of src/Main.cpp: floors of spots, tickets by id, the ticket *)
(* counter of Ticket::generateId and the wall clock read by Ticket and by  *)
(* unparkVehicle.                                                          *)
(***************************************************************************)
EXTENDS Integers, Sequences, FiniteSets, TLC

VARIABLES
    floors,     \* ParkingLot::floors: sequence of Floor, each with its spots
    tickets,    \* ParkingLot::tickets: ticket id -> Ticket
    counter,    \* the static counter of Ticket::generateId
    last,       \* the last call of parkVehicle / unparkVehicle and what it returned
    issued,     \* history: the ids returned by successful parkVehicle calls, in order
    unparked    \* history: the ids a successful unparkVehicle has erased

vars == <<floors, tickets, counter, last, issued, unparked>>

----------------------------------------------------------------------------
(* Bounds of the model *)

\* floors of the lot of the general specification
LotFloors == 2
\* spots per floor of the lot of the general specification (letters A..)
LotSpots == 3
\* cap on the ticket counter in the general specification
MaxTickets == 3
\* std::chrono::system_clock::now() returns a value in 0..MaxClock
MaxClock == 2
\* clock ticks in one hour
TicksPerHour == 2
\* initializeFloors is called with 1..MaxFloors floors in the CAR scenario
MaxFloors == 4

(* Program constants *)

\* 'A', the first spot letter
CharA == 65
\* 'Z', the last spot letter
CharZ == 90
\* main() initializes 3 floors
MainFloors == 3

----------------------------------------------------------------------------
(* Strings *)

Letters ==
    << "A", "B", "C", "D", "E", "F", "G", "H", "I", "J", "K", "L", "M",
       "N", "O", "P", "Q", "R", "S", "T", "U", "V", "W", "X", "Y", "Z" >>

\* faulty variant: every char gives the first letter
ChrFirst(c) == Letters[1]

\* the one-character string of the char c ('A'..'Z')
Chr(c) == Letters[c - CharA + 1]

Digits == << "0", "1", "2", "3", "4", "5", "6", "7", "8", "9" >>

RECURSIVE to_string(_)
\* std::to_string of a non-negative int: its decimal digits
to_string(n) ==
    IF n < 10 THEN Digits[n + 1]
    ELSE to_string(n \div 10) \o Digits[(n % 10) + 1]

----------------------------------------------------------------------------
(* Vehicle, ParkingSpot *)

VehicleType == {"CAR", "BIKE", "TRUCK"}
SpotType == {"COMPACT", "LARGE", "HANDICAPPED", "ELECTRIC"}

Vehicle(licensePlate, type) == [licensePlate |-> licensePlate, type |-> type]

\* the null std::shared_ptr<Vehicle>
NoVehicle == [licensePlate |-> "", type |-> "NULL"]

ParkingSpot(spotId, spotType) ==
    [spotId |-> spotId, spotType |-> spotType,
     isOccupied |-> FALSE, vehicle |-> NoVehicle]

isAvailable(spot) == ~spot.isOccupied

\* faulty variant: the occupied flag is not set
assignVehicleNoFlag(spot, vehicle) == [spot EXCEPT !.vehicle = vehicle]

assignVehicle(spot, vehicle) ==
    [spot EXCEPT !.vehicle = vehicle, !.isOccupied = TRUE]

\* faulty variant: the occupant reference is not reset
removeVehicleKeepPtr(spot) == [spot EXCEPT !.isOccupied = FALSE]

removeVehicle(spot) ==
    [spot EXCEPT !.vehicle = NoVehicle, !.isOccupied = FALSE]

----------------------------------------------------------------------------
(* Floor *)

\* faulty variant: the spot kinds alternate the other way round
FloorCompactFirst(floorNumber, lastChar) ==
    [floorNumber |-> floorNumber,
     spots |-> [i \in 1..(lastChar - CharA + 1) |->
                  LET c == CharA + i - 1
                  IN  ParkingSpot(to_string(floorNumber) \o Chr(c),
                                  IF c % 2 = 0 THEN "LARGE" ELSE "COMPACT")]]

\* faulty variant: the last spot of a floor is a HANDICAPPED spot
FloorWithHandicapped(floorNumber, lastChar) ==
    [floorNumber |-> floorNumber,
     spots |-> [i \in 1..(lastChar - CharA + 1) |->
                  LET c == CharA + i - 1
                  IN  ParkingSpot(to_string(floorNumber) \o Chr(c),
                                  IF c = lastChar THEN "HANDICAPPED"
                                  ELSE IF c % 2 = 0 THEN "COMPACT" ELSE "LARGE")]]

\* Floor::Floor with the letters 'A'..lastChar ('Z' in the program)
Floor(floorNumber, lastChar) ==
    [floorNumber |-> floorNumber,
     spots |-> [i \in 1..(lastChar - CharA + 1) |->
                  LET c == CharA + i - 1
                  IN  ParkingSpot(to_string(floorNumber) \o Chr(c),
                                  IF c % 2 = 0 THEN "COMPACT" ELSE "LARGE")]]

\* faulty variant: a CAR matches a spot of any kind
MatchesCarAnywhere(vehicleType, spotType) ==
    \/ vehicleType = "CAR"
    \/ vehicleType = "TRUCK" /\ spotType = "LARGE"
    \/ vehicleType = "BIKE"

\* the condition of findAvailableSpot on the vehicle and spot kinds
Matches(vehicleType, spotType) ==
    \/ vehicleType = "CAR" /\ spotType = "COMPACT"
    \/ vehicleType = "TRUCK" /\ spotType = "LARGE"
    \/ vehicleType = "BIKE"

RECURSIVE ScanSpots(_, _, _)
\* the loop of findAvailableSpot from spot i on: the index found, 0 for nullptr
ScanSpots(spots, i, vehicleType) ==
    IF i > Len(spots) THEN 0
    ELSE IF isAvailable(spots[i]) /\ Matches(vehicleType, spots[i].spotType)
         THEN i
         ELSE ScanSpots(spots, i + 1, vehicleType)

\* faulty variant: findAvailableSpot scans from the last spot down
RECURSIVE ScanSpotsBack(_, _, _)
ScanSpotsBack(spots, i, vehicleType) ==
    IF i < 1 THEN 0
    ELSE IF isAvailable(spots[i]) /\ Matches(vehicleType, spots[i].spotType)
         THEN i
         ELSE ScanSpotsBack(spots, i - 1, vehicleType)

findAvailableSpotLast(floor, vehicleType) ==
    ScanSpotsBack(floor.spots, Len(floor.spots), vehicleType)

findAvailableSpot(floor, vehicleType) == ScanSpots(floor.spots, 1, vehicleType)

----------------------------------------------------------------------------
(* Ticket *)

\* the null std::shared_ptr<Ticket>
NoTicket ==
    [ticketId |-> "", vehicle |-> NoVehicle, assignedSpot |-> <<0, 0>>,
     entryTime |-> 0]

\* faulty variant: the counter is read but not incremented
generateIdNoIncrement(cnt) == [counter |-> cnt, id |-> "T" \o to_string(cnt + 1)]

\* Ticket::generateId: ++counter, "T" + std::to_string(counter)
generateId(cnt) == [counter |-> cnt + 1, id |-> "T" \o to_string(cnt + 1)]

\* Ticket::Ticket; the spot is referred to by <<floor index, spot index>>
Ticket(vehicle, spot, id, clock) ==
    [ticketId |-> id, vehicle |-> vehicle, assignedSpot |-> spot,
     entryTime |-> clock]

----------------------------------------------------------------------------
(* ParkingLot *)

initializeFloors(fl, numFloors, lastChar) ==
    fl \o [i \in 1..numFloors |-> Floor(i, lastChar)]

\* faulty variant: the map is replaced by the one new entry
PutAlone(tks, id, ticket) == [x \in {id} |-> ticket]

\* tickets[id] = ticket
Put(tks, id, ticket) ==
    [x \in (DOMAIN tks) \cup {id} |-> IF x = id THEN ticket ELSE tks[x]]

\* tickets.erase(id)
Erase(tks, id) == [x \in (DOMAIN tks) \ {id} |-> tks[x]]

RECURSIVE ParkOnFloors(_, _, _, _, _, _)
\* the loop of parkVehicle from floor f on
ParkOnFloors(fl, tks, cnt, clock, vehicle, f) ==
    IF f > Len(fl)
    THEN [floors |-> fl, tickets |-> tks, counter |-> cnt, ticket |-> NoTicket]
    ELSE LET s == findAvailableSpot(fl[f], vehicle.type)
         IN  IF s # 0
             THEN LET g == generateId(cnt)
                      ticket == Ticket(vehicle, <<f, s>>, g.id, clock)
                  IN  [floors |-> [fl EXCEPT ![f].spots[s] = assignVehicle(@, vehicle)],
                       tickets |-> Put(tks, g.id, ticket),
                       counter |-> g.counter,
                       ticket |-> ticket]
             ELSE ParkOnFloors(fl, tks, cnt, clock, vehicle, f + 1)

\* faulty variant: only the first floor is asked for a spot
parkVehicleFirstFloorOnly(fl, tks, cnt, clock, vehicle) ==
    LET r == ParkOnFloors(SubSeq(fl, 1, 1), tks, cnt, clock, vehicle, 1)
    IN  [r EXCEPT !.floors = r.floors \o SubSeq(fl, 2, Len(fl))]

\* faulty variant: a vehicle that holds a stored ticket is turned away
parkVehicleRejectsParked(fl, tks, cnt, clock, vehicle) ==
    IF \E id \in DOMAIN tks : tks[id].vehicle = vehicle
    THEN [floors |-> fl, tickets |-> tks, counter |-> cnt, ticket |-> NoTicket]
    ELSE ParkOnFloors(fl, tks, cnt, clock, vehicle, 1)

parkVehicle(fl, tks, cnt, clock, vehicle) ==
    ParkOnFloors(fl, tks, cnt, clock, vehicle, 1)

\* faulty variant: whole hours rounded toward minus infinity
duration_cast_floor(duration) == duration \div TicksPerHour

\* std::chrono::duration_cast<hours>: whole hours, truncated toward zero
duration_cast_hours(duration) ==
    IF duration >= 0 THEN duration \div TicksPerHour
    ELSE -((-duration) \div TicksPerHour)

\* faulty variant: an unknown id is answered with fee 0
unparkVehicleNotFoundZero(fl, tks, clock, ticketId) ==
    IF ticketId \notin DOMAIN tks
    THEN [floors |-> fl, tickets |-> tks, fee |-> 0]
    ELSE LET spot == tks[ticketId].assignedSpot
         IN  [floors |-> [fl EXCEPT ![spot[1]].spots[spot[2]] = removeVehicle(@)],
              tickets |-> Erase(tks, ticketId),
              fee |-> duration_cast_hours(clock - tks[ticketId].entryTime) * 10]

\* faulty variant: the fee is the number of hours, not ten times it
unparkVehicleRateOne(fl, tks, clock, ticketId) ==
    IF ticketId \notin DOMAIN tks
    THEN [floors |-> fl, tickets |-> tks, fee |-> -1]
    ELSE LET spot == tks[ticketId].assignedSpot
         IN  [floors |-> [fl EXCEPT ![spot[1]].spots[spot[2]] = removeVehicle(@)],
              tickets |-> Erase(tks, ticketId),
              fee |-> duration_cast_hours(clock - tks[ticketId].entryTime)]

\* faulty variant: the ticket is not erased
unparkVehicleKeepsTicket(fl, tks, clock, ticketId) ==
    IF ticketId \notin DOMAIN tks
    THEN [floors |-> fl, tickets |-> tks, fee |-> -1]
    ELSE LET spot == tks[ticketId].assignedSpot
         IN  [floors |-> [fl EXCEPT ![spot[1]].spots[spot[2]] = removeVehicle(@)],
              tickets |-> tks,
              fee |-> duration_cast_hours(clock - tks[ticketId].entryTime) * 10]

unparkVehicle(fl, tks, clock, ticketId) ==
    IF ticketId \notin DOMAIN tks
    THEN [floors |-> fl, tickets |-> tks, fee |-> -1]
    ELSE LET ticket == tks[ticketId]
             spot == ticket.assignedSpot
             duration == clock - ticket.entryTime
             hours == duration_cast_hours(duration)
             fee == hours * 10
         IN  [floors |-> [fl EXCEPT ![spot[1]].spots[spot[2]] = removeVehicle(@)],
              tickets |-> Erase(tks, ticketId),
              fee |-> fee]

----------------------------------------------------------------------------
(* Inputs *)

\* main()'s car, and one vehicle of each other kind
Vehicles ==
    {Vehicle("ABC123", "CAR"), Vehicle("BK1", "BIKE"), Vehicle("TR1", "TRUCK")}

\* the ids unparkVehicle is called with: every id that can be issued, and "T9999"
TicketIds == {"T" \o to_string(n) : n \in 1..MaxTickets} \cup {"T9999"}

\* what system_clock::now() can return at a call, in clock ticks: the wall clock may
\* stand still, advance or be set back between two calls
Clock == 0..MaxClock

----------------------------------------------------------------------------
(* Actions *)

\* last: the call (op and its argument), the local duration of unparkVehicle, and
\* the value returned (ticket for parkVehicle, fee for unparkVehicle)
Call(op, vehicle, ticketId, duration, ticket, fee) ==
    [op |-> op, vehicle |-> vehicle, ticketId |-> ticketId, duration |-> duration,
     ticket |-> ticket, fee |-> fee]

NoCall == Call("none", NoVehicle, "", 0, NoTicket, 0)

InitLot(fl) ==
    /\ floors = fl
    /\ tickets = [x \in {} |-> NoTicket]
    /\ counter = 0
    /\ last = NoCall
    /\ issued = <<>>
    /\ unparked = {}

\* the lot of the general specification: main()'s initializeFloors on a smaller lot
Init == InitLot(initializeFloors(<<>>, LotFloors, CharA + LotSpots - 1))

\* parkVehicle(vehicle), with system_clock::now() returning clock
ParkVehicle(vehicle, clock) ==
    \E r \in {parkVehicle(floors, tickets, counter, clock, vehicle)} :
        /\ floors' = r.floors
        /\ tickets' = r.tickets
        /\ counter' = r.counter
        /\ last' = Call("park", vehicle, "", 0, r.ticket, 0)
        /\ issued' = IF r.ticket # NoTicket
                     THEN Append(issued, r.ticket.ticketId) ELSE issued
        /\ UNCHANGED unparked

\* unparkVehicle(ticketId), with system_clock::now() returning clock
UnparkVehicle(ticketId, clock) ==
    \E r \in {unparkVehicle(floors, tickets, clock, ticketId)} :
        /\ floors' = r.floors
        /\ tickets' = r.tickets
        /\ last' = Call("unpark", NoVehicle, ticketId,
                        IF ticketId \in DOMAIN tickets
                        THEN clock - tickets[ticketId].entryTime ELSE 0,
                        NoTicket, r.fee)
        /\ unparked' = IF ticketId \in DOMAIN tickets
                       THEN unparked \cup {ticketId} ELSE unparked
        /\ UNCHANGED <<counter, issued>>

\* parkVehicle is called while the ticket counter stays within MaxTickets
Park ==
    \E v \in Vehicles, t \in Clock :
        /\ ParkVehicle(v, t)
        /\ counter' <= MaxTickets

Unpark == \E id \in TicketIds, t \in Clock : UnparkVehicle(id, t)

Next == Park \/ Unpark

Spec == Init /\ [][Next]_vars

(* The CAR scenario: a fresh lot of full-size floors, CARs parked one after another *)

\* the lot after initializeFloors(n) on the empty ParkingLot
InitCars == \E n \in 1..MaxFloors : InitLot(initializeFloors(<<>>, n, CharZ))

\* main()'s car is parked once more; the clock stands still in this scenario
ParkCar == ParkVehicle(Vehicle("ABC123", "CAR"), 0)

NextCars == ParkCar

SpecCars == InitCars /\ [][NextCars]_vars

(* The BIKE scenario: a fresh lot of full-size floors, BIKEs parked until it is full *)

ParkBike == ParkVehicle(Vehicle("BK1", "BIKE"), 0)

NextBikes == ParkBike

SpecBikes == InitCars /\ [][NextBikes]_vars

(* Repeated initialization: initializeFloors is called on the lot any number of *)
(* times, between parkVehicle calls for a CAR                                   *)

\* the ParkingLot as constructed by getInstance: no floors yet
InitEmpty == InitLot(<<>>)

\* initializeFloors(numFloors) on the lot as it is
InitializeFloors(numFloors) ==
    /\ floors' = initializeFloors(floors, numFloors, CharZ)
    /\ UNCHANGED <<tickets, counter, last, issued, unparked>>

\* initializeFloors is called while the lot stays within MaxFloors floors
Initialize ==
    \E n \in 1..MaxFloors :
        /\ Len(floors) + n <= MaxFloors
        /\ InitializeFloors(n)

NextInit == Initialize \/ ParkCar

SpecInit == InitEmpty /\ [][NextInit]_vars

----------------------------------------------------------------------------
(* Properties *)

\* the spots of the lot, each named by <<floor index, spot index>>
AllSpots ==
    UNION {{<<f, i>> : i \in 1..Len(floors[f].spots)} : f \in 1..Len(floors)}

SpotAt(fl, s) == fl[s[1]].spots[s[2]]

\* the compatibility rule as the specification states it
Compatible(vehicleType, spotType) ==
    CASE vehicleType = "BIKE" -> TRUE
      [] vehicleType = "CAR" -> spotType = "COMPACT"
      [] vehicleType = "TRUCK" -> spotType = "LARGE"
      [] OTHER -> FALSE

\* C1: a spot assigned by parkVehicle is occupied, and while its ticket is stored no
\* findAvailableSpot call (any floor, any vehicle kind) returns it and no parkVehicle
\* call assigns it.
C1_AssignedSpotExcluded ==
    /\ (last.op = "park" /\ last.ticket # NoTicket) =>
          /\ last.ticket.ticketId \in DOMAIN tickets
          /\ tickets[last.ticket.ticketId] = last.ticket
    /\ LET found == {<<f, findAvailableSpot(floors[f], vt)>> :
                         f \in 1..Len(floors), vt \in VehicleType}
           assigned == {parkVehicle(floors, tickets, counter, t, v).ticket.assignedSpot :
                            v \in Vehicles, t \in Clock}
       IN  \A id \in DOMAIN tickets :
             LET s == tickets[id].assignedSpot
             IN  /\ s \in AllSpots
                 /\ SpotAt(floors, s).isOccupied
                 /\ s \notin found
                 /\ s \notin assigned

\* C1 witness: parkVehicle has just returned a ticket while another ticket is stored
\* and free spots remain
C1_Witness ==
    /\ last.op = "park" /\ last.ticket # NoTicket
    /\ Cardinality(DOMAIN tickets) >= 2
    /\ \E s \in AllSpots : isAvailable(SpotAt(floors, s))

\* C3: every occupied spot holds a vehicle compatible with its kind: a CAR only in a
\* COMPACT spot, a TRUCK only in a LARGE spot, a BIKE in any.
C3_OccupantCompatible ==
    \A s \in AllSpots :
        LET spot == SpotAt(floors, s)
        IN  spot.isOccupied =>
              /\ spot.vehicle.type \in VehicleType
              /\ spot.vehicle.type = "CAR" => spot.spotType = "COMPACT"
              /\ spot.vehicle.type = "TRUCK" => spot.spotType = "LARGE"

\* C3 witness: a BIKE in a LARGE spot, a BIKE in a COMPACT spot and a CAR parked
C3_Witness ==
    /\ \E s \in AllSpots : /\ SpotAt(floors, s).isOccupied
                            /\ SpotAt(floors, s).vehicle.type = "BIKE"
                            /\ SpotAt(floors, s).spotType = "LARGE"
    /\ \E s \in AllSpots : /\ SpotAt(floors, s).isOccupied
                            /\ SpotAt(floors, s).vehicle.type = "BIKE"
                            /\ SpotAt(floors, s).spotType = "COMPACT"
    /\ \E s \in AllSpots : /\ SpotAt(floors, s).isOccupied
                            /\ SpotAt(floors, s).vehicle.type = "CAR"

\* C10: for every spot, the occupied flag is true exactly when an occupant vehicle
\* reference is present.
C10_OccupiedIffOccupant ==
    \A s \in AllSpots :
        SpotAt(floors, s).isOccupied <=> SpotAt(floors, s).vehicle # NoVehicle

\* C10 witness: a spot has been freed by unparkVehicle while another is occupied
C10_Witness ==
    /\ last.op = "unpark" /\ last.ticketId \in unparked /\ last.fee # -1
    /\ \E s \in AllSpots : SpotAt(floors, s).isOccupied
    /\ \E s \in AllSpots : ~SpotAt(floors, s).isOccupied

\* s comes before r in (floor order, then spot order within the floor)
Earlier(s, r) == s[1] < r[1] \/ (s[1] = r[1] /\ s[2] < r[2])

\* the free spots of fl compatible with the vehicle kind
FreeCompatible(fl, vehicleType) ==
    {s \in AllSpots : /\ ~SpotAt(fl, s).isOccupied
                      /\ Compatible(vehicleType, SpotAt(fl, s).spotType)}

\* C2: a successful unparkVehicle(id) leaves the ticket's spot available (a compatible
\* vehicle parked next gets a ticket, for that spot or one before it) and removes the
\* id; every later unparkVehicle of an id unparked before returns -1.
C2_UnparkFreesAndInvalidates ==
    [][\A id \in TicketIds, t \in Clock :
          (/\ last'.op = "unpark" /\ last'.ticketId = id
           /\ id \in DOMAIN tickets => last'.duration = t - tickets[id].entryTime
           /\ UnparkVehicle(id, t)) =>
            /\ id \in DOMAIN tickets =>
                 \A s \in {tickets[id].assignedSpot} :
                     /\ ~SpotAt(floors', s).isOccupied
                     /\ SpotAt(floors', s).vehicle = NoVehicle
                     /\ id \notin DOMAIN tickets'
                     /\ \A v \in Vehicles :
                          Compatible(v.type, SpotAt(floors', s).spotType) =>
                            \A r \in {parkVehicle(floors', tickets', counter', t, v)} :
                                /\ r.ticket # NoTicket
                                /\ ~Earlier(s, r.ticket.assignedSpot)
            /\ id \in unparked => (last'.fee = -1 /\ floors' = floors)]_vars

\* C2 witness: unparkVehicle returned -1 for an id it had erased before, with a
\* ticket issued since
C2_Witness ==
    /\ last.op = "unpark" /\ last.ticketId \in unparked /\ last.fee = -1
    /\ \E id \in DOMAIN tickets : id # last.ticketId

\* C4: the spot a successful parkVehicle assigns was free and compatible, and no free
\* compatible spot came before it in (floor order, then spot order).
C4_FirstFit ==
    [][\A v \in Vehicles, t \in Clock :
          (last'.op = "park" /\ last'.vehicle = v /\ last'.ticket # NoTicket
             /\ ParkVehicle(v, t)) =>
            LET s == last'.ticket.assignedSpot
            IN  /\ s \in FreeCompatible(floors, v.type)
                /\ \A r \in FreeCompatible(floors, v.type) : ~Earlier(r, s)
                /\ SpotAt(floors', s).isOccupied]_vars

\* C4 witness: a vehicle was assigned a spot of floor 2 while floor 1 still has a
\* free spot (one the vehicle is not compatible with)
C4_Witness ==
    /\ last.op = "park" /\ last.ticket # NoTicket
    /\ last.ticket.assignedSpot[1] = 2
    /\ \E s \in AllSpots : s[1] = 1 /\ ~SpotAt(floors, s).isOccupied

\* C5: parkVehicle returns none exactly when no floor has a free spot compatible with
\* the vehicle's kind, and then the spots, the ticket map and the counter are unchanged.
C5_NoneIffNoSpot ==
    [][\A v \in Vehicles, t \in Clock :
          (last'.op = "park" /\ last'.vehicle = v /\ ParkVehicle(v, t)) =>
            /\ last'.ticket = NoTicket <=> FreeCompatible(floors, v.type) = {}
            /\ last'.ticket = NoTicket =>
                 (floors' = floors /\ tickets' = tickets /\ counter' = counter)]_vars

\* C5 witness: parkVehicle returned none while free spots of the other kind remain
C5_Witness ==
    /\ last.op = "park" /\ last.ticket = NoTicket
    /\ FreeCompatible(floors, last.vehicle.type) = {}
    /\ \E s \in AllSpots : ~SpotAt(floors, s).isOccupied

\* C6: unparkVehicle with an id absent from the ticket map returns -1 and leaves the
\* spots, the ticket map and the ticket counter unchanged.
C6_UnknownIdNoEffect ==
    [][\A id \in TicketIds, t \in Clock :
          (last'.op = "unpark" /\ last'.ticketId = id /\ id \notin DOMAIN tickets
             /\ UnparkVehicle(id, t)) =>
            /\ last'.fee = -1
            /\ floors' = floors /\ tickets' = tickets /\ counter' = counter]_vars

\* C6 witness: unparkVehicle("T9999") returned -1 with tickets stored
C6_Witness ==
    /\ last.op = "unpark" /\ last.ticketId = "T9999" /\ last.fee = -1
    /\ DOMAIN tickets # {}
    /\ unparked # {}

\* the ids "T1", "T2", ... in order
IdTable ==
    << "T1", "T2", "T3", "T4", "T5", "T6", "T7", "T8", "T9", "T10", "T11", "T12" >>

\* C7: the n-th successful parkVehicle returns "T{n}"; the stored tickets carry ids
\* that were issued, and an id erased by unparkVehicle is never stored again.
C7_SequentialIds ==
    /\ Len(issued) = counter
    /\ Len(issued) <= Len(IdTable)
    /\ issued = SubSeq(IdTable, 1, Len(issued))
    /\ \A m, n \in 1..Len(issued) : m # n => issued[m] # issued[n]
    /\ \A id \in DOMAIN tickets :
         /\ tickets[id].ticketId = id
         /\ \E n \in 1..Len(issued) : issued[n] = id
    /\ \A id \in unparked :
         /\ id \notin DOMAIN tickets
         /\ \E n \in 1..Len(issued) : issued[n] = id
    /\ (last.op = "park" /\ last.ticket # NoTicket) =>
         /\ last.ticket.ticketId = issued[Len(issued)]
         /\ last.ticket.ticketId \notin unparked

\* C7 witness: a third ticket was issued after the first had been unparked
C7_Witness ==
    /\ last.op = "park" /\ last.ticket.ticketId = "T3"
    /\ "T1" \in unparked

\* whole hours of a duration in ticks, rounded toward minus infinity
FloorHours(d) == CHOOSE h \in -(MaxClock + 1)..(MaxClock + 1) :
                    h * TicksPerHour <= d /\ d < (h + 1) * TicksPerHour

\* whole hours of a duration in ticks, rounded toward zero
WholeHours(d) ==
    IF d >= 0 THEN FloorHours(d) ELSE -FloorHours(-d)

\* C8 as stated: the fee of a successful unparkVehicle is 10 x floor(elapsed hours),
\* and 0 for every elapsed time below one hour.
C8_FeeFloor ==
    [][\A id \in TicketIds, t \in Clock :
          (/\ last'.op = "unpark" /\ last'.ticketId = id /\ id \in DOMAIN tickets
           /\ last'.duration = t - tickets[id].entryTime
           /\ UnparkVehicle(id, t)) =>
            LET d == t - tickets[id].entryTime
            IN  /\ last'.fee = 10 * FloorHours(d)
                /\ d < TicksPerHour => last'.fee = 0]_vars

\* C8 amended: the fee of a successful unparkVehicle is 10 x (elapsed hours rounded
\* toward zero), and 0 for every elapsed time strictly between minus one hour and
\* one hour.
C8_FeeTruncated ==
    [][\A id \in TicketIds, t \in Clock :
          (/\ last'.op = "unpark" /\ last'.ticketId = id /\ id \in DOMAIN tickets
           /\ last'.duration = t - tickets[id].entryTime
           /\ UnparkVehicle(id, t)) =>
            LET d == t - tickets[id].entryTime
            IN  /\ last'.fee = 10 * WholeHours(d)
                /\ (-TicksPerHour < d /\ d < TicksPerHour) => last'.fee = 0]_vars

\* C8 witness: a successful unparkVehicle with the clock set back by less than an
\* hour since entry returned 0
C8_Witness ==
    /\ last.op = "unpark" /\ last.ticketId \in unparked
    /\ last.duration < 0 /\ -TicksPerHour < last.duration
    /\ last.fee = 0

\* the floor the k-th CAR lands on: ceil(k / 13)
CarFloor(k) == (k + 12) \div 13

\* C9: on a fresh lot where only CARs are parked and none unparked, the k-th CAR gets
\* the ((k-1) mod 13 + 1)-th COMPACT spot of floor ceil(k/13): the first 13 fill floor
\* 1's COMPACT spots, the 14th gets "2B", and on the 3-floor lot the 40th gets none.
C9_CarsFillFloorByFloor ==
    /\ unparked = {}
    /\ \A k \in 1..counter :
         LET s == tickets[issued[k]].assignedSpot
         IN  /\ s = <<CarFloor(k), 2 * (((k - 1) % 13) + 1)>>
             /\ SpotAt(floors, s).spotType = "COMPACT"
             /\ floors[s[1]].floorNumber = CarFloor(k)
    /\ counter >= 13 =>
         \A i \in 1..Len(floors[1].spots) :
            floors[1].spots[i].spotType = "COMPACT" => floors[1].spots[i].isOccupied
    /\ counter >= 14 => SpotAt(floors, tickets[issued[14]].assignedSpot).spotId = "2B"
    /\ parkVehicle(floors, tickets, counter, 0, Vehicle("ABC123", "CAR")).ticket = NoTicket
         <=> counter = 13 * Len(floors)
    /\ (last.op = "park" /\ last.ticket = NoTicket) => counter = 13 * Len(floors)
    /\ (Len(floors) = MainFloors /\ counter = 39) =>
         parkVehicle(floors, tickets, counter, 0, Vehicle("ABC123", "CAR")).ticket = NoTicket

\* C9 witness: on the 3-floor lot, after 39 CARs, parkVehicle returned none
C9_Witness ==
    /\ Len(floors) = MainFloors
    /\ counter = 39
    /\ last.op = "park" /\ last.ticket = NoTicket
    /\ SpotAt(floors, tickets["T14"].assignedSpot).spotId = "2B"

\* every spot of the lot is occupied
LotFull == \A s \in AllSpots : SpotAt(floors, s).isOccupied

\* C11: no spot is of kind HANDICAPPED or ELECTRIC, so findAvailableSpot never offers
\* a BIKE such a spot, and a BIKE parked when every spot is occupied gets none.
C11_NoDeadKindSpot ==
    /\ \A s \in AllSpots : SpotAt(floors, s).spotType \in {"COMPACT", "LARGE"}
    /\ \A f \in 1..Len(floors) :
         \A i \in {findAvailableSpot(floors[f], "BIKE")} :
            i # 0 => floors[f].spots[i].spotType \notin {"HANDICAPPED", "ELECTRIC"}
    /\ LotFull =>
         parkVehicle(floors, tickets, counter, 0, Vehicle("BK1", "BIKE")).ticket = NoTicket
    /\ (last.op = "park" /\ last.ticket = NoTicket) => LotFull

\* C11 witness: the lot is full and parkVehicle returned none for a BIKE
C11_Witness ==
    /\ LotFull
    /\ Len(floors) = MainFloors
    /\ last.op = "park" /\ last.vehicle.type = "BIKE" /\ last.ticket = NoTicket

\* C12: on every floor the 26 spots alternate by letter: odd positions (A, C, ..., Y)
\* are LARGE and even positions (B, D, ..., Z) are COMPACT, 13 of each.
C12_KindsAlternate ==
    \A f \in 1..Len(floors) :
        /\ Len(floors[f].spots) = 26
        /\ \A i \in 1..Len(floors[f].spots) :
             floors[f].spots[i].spotType = IF i % 2 = 1 THEN "LARGE" ELSE "COMPACT"
        /\ Cardinality({i \in 1..Len(floors[f].spots) :
                          floors[f].spots[i].spotType = "LARGE"}) = 13
        /\ Cardinality({i \in 1..Len(floors[f].spots) :
                          floors[f].spots[i].spotType = "COMPACT"}) = 13

\* C12 witness: the 3-floor lot with CARs on COMPACT spots of two floors
C12_Witness ==
    /\ Len(floors) = MainFloors
    /\ counter = 14
    /\ floors[1].spots[26].isOccupied /\ floors[1].spots[26].spotType = "COMPACT"
    /\ ~floors[1].spots[25].isOccupied /\ floors[1].spots[25].spotType = "LARGE"

\* the digits of the floor numbers and the letters A..Z, in order
FloorNumerals == << "1", "2", "3", "4", "5", "6", "7", "8", "9" >>

Alphabet == << "A", "B", "C", "D", "E", "F", "G", "H", "I", "J", "K", "L", "M",
               "N", "O", "P", "Q", "R", "S", "T", "U", "V", "W", "X", "Y", "Z" >>

\* C13: on every floor the 26 spot ids are pairwise distinct and the i-th is the
\* floor number followed by the i-th letter of A..Z.
C13_SpotIds ==
    \A f \in 1..Len(floors) :
        /\ Len(floors[f].spots) = 26
        /\ floors[f].floorNumber = f
        /\ \A i \in 1..Len(floors[f].spots) :
             floors[f].spots[i].spotId = FloorNumerals[f] \o Alphabet[i]
        /\ \A i, j \in 1..Len(floors[f].spots) :
             i # j => floors[f].spots[i].spotId # floors[f].spots[j].spotId

\* C13 witness: on the 3-floor lot a BIKE has been assigned spot "3Z"
C13_Witness ==
    /\ Len(floors) = MainFloors
    /\ last.op = "park" /\ last.ticket # NoTicket
    /\ SpotAt(floors, last.ticket.assignedSpot).spotId = "3Z"

\* the occupied spots of the lot
OccupiedSpots == {s \in AllSpots : SpotAt(floors, s).isOccupied}

\* C14: the stored tickets and the occupied spots are in one-to-one correspondence:
\* each stored ticket's spot is occupied by the ticket's vehicle, no two stored tickets
\* share a spot, and each occupied spot belongs to exactly one stored ticket.
C14_TicketsMatchOccupiedSpots ==
    /\ \A id \in DOMAIN tickets :
         /\ tickets[id].assignedSpot \in OccupiedSpots
         /\ SpotAt(floors, tickets[id].assignedSpot).vehicle = tickets[id].vehicle
    /\ \A id1, id2 \in DOMAIN tickets :
         id1 # id2 => tickets[id1].assignedSpot # tickets[id2].assignedSpot
    /\ \A s \in OccupiedSpots :
         Cardinality({id \in DOMAIN tickets : tickets[id].assignedSpot = s}) = 1
    /\ Cardinality(DOMAIN tickets) = Cardinality(OccupiedSpots)

\* C14 witness: two tickets are stored after another has been unparked
C14_Witness ==
    /\ Cardinality(DOMAIN tickets) = 2
    /\ unparked # {}
    /\ Cardinality(OccupiedSpots) = 2

\* C15: unparkVehicle returns -1 exactly when the id is absent from the ticket map; a
\* successful unparkVehicle returns a multiple of 10, whatever the elapsed time.
C15_SentinelOnlyWhenAbsent ==
    [][\A id \in TicketIds, t \in Clock :
          (/\ last'.op = "unpark" /\ last'.ticketId = id
           /\ id \in DOMAIN tickets => last'.duration = t - tickets[id].entryTime
           /\ UnparkVehicle(id, t)) =>
            /\ last'.fee = -1 <=> id \notin DOMAIN tickets
            /\ id \in DOMAIN tickets => last'.fee % 10 = 0]_vars

\* C15 witness: a successful unparkVehicle with the clock set back an hour or more
\* returned a negative fee
C15_Witness ==
    /\ last.op = "unpark" /\ last.ticketId \in unparked
    /\ last.duration <= -TicksPerHour
    /\ last.fee < -1

\* the floors and their spots are the same in fl and gl, occupancy aside
SameLayout(fl, gl) ==
    /\ Len(fl) = Len(gl)
    /\ \A f \in 1..Len(fl) :
         /\ fl[f].floorNumber = gl[f].floorNumber
         /\ Len(fl[f].spots) = Len(gl[f].spots)
         /\ \A i \in 1..Len(fl[f].spots) :
              /\ fl[f].spots[i].spotId = gl[f].spots[i].spotId
              /\ fl[f].spots[i].spotType = gl[f].spots[i].spotType

\* C16: a successful parkVehicle occupies exactly one spot and adds exactly one
\* ticket; a successful unparkVehicle frees exactly the ticket's spot and removes
\* exactly that ticket and leaves the counter; all else is unchanged.
C16_Frame ==
    [][/\ \A v \in Vehicles, t \in Clock :
            (last'.op = "park" /\ last'.vehicle = v /\ last'.ticket # NoTicket
               /\ ParkVehicle(v, t)) =>
              \A s \in {last'.ticket.assignedSpot}, id \in {last'.ticket.ticketId} :
                 /\ SameLayout(floors, floors')
                 /\ ~SpotAt(floors, s).isOccupied /\ SpotAt(floors', s).isOccupied
                 /\ \A r \in AllSpots \ {s} : SpotAt(floors', r) = SpotAt(floors, r)
                 /\ id \notin DOMAIN tickets
                 /\ DOMAIN tickets' = DOMAIN tickets \cup {id}
                 /\ \A x \in DOMAIN tickets : tickets'[x] = tickets[x]
       /\ \A id \in TicketIds, t \in Clock :
            (/\ last'.op = "unpark" /\ last'.ticketId = id /\ id \in DOMAIN tickets
             /\ last'.duration = t - tickets[id].entryTime
             /\ UnparkVehicle(id, t)) =>
              \A s \in {tickets[id].assignedSpot} :
                 /\ SameLayout(floors, floors')
                 /\ SpotAt(floors, s).isOccupied /\ ~SpotAt(floors', s).isOccupied
                 /\ \A r \in AllSpots \ {s} : SpotAt(floors', r) = SpotAt(floors, r)
                 /\ DOMAIN tickets' = DOMAIN tickets \ {id}
                 /\ \A x \in DOMAIN tickets' : tickets'[x] = tickets[x]
                 /\ counter' = counter]_vars

\* C16 witness: a successful unparkVehicle has left two other tickets stored
C16_Witness ==
    /\ last.op = "unpark" /\ last.ticketId \in unparked /\ last.fee # -1
    /\ Cardinality(DOMAIN tickets) = 2
    /\ Cardinality(OccupiedSpots) = 2

\* C17: parkVehicle called again with the vehicle it has just parked, while a free
\* compatible spot remains, succeeds again: two distinct stored tickets on two
\* distinct spots, both occupied by that vehicle.
C17_SameVehicleParkedTwice ==
    [][\A v \in Vehicles, t \in Clock :
          (/\ last.op = "park" /\ last.vehicle = v /\ last.ticket # NoTicket
           /\ FreeCompatible(floors, v.type) # {}
           /\ last'.op = "park" /\ last'.vehicle = v
           /\ ParkVehicle(v, t)) =>
            /\ last'.ticket # NoTicket
            /\ last'.ticket.ticketId # last.ticket.ticketId
            /\ last'.ticket.assignedSpot # last.ticket.assignedSpot
            /\ {last.ticket.ticketId, last'.ticket.ticketId} \subseteq DOMAIN tickets'
            /\ tickets'[last.ticket.ticketId].vehicle = v
            /\ tickets'[last'.ticket.ticketId].vehicle = v
            /\ SpotAt(floors', last.ticket.assignedSpot).isOccupied
            /\ SpotAt(floors', last'.ticket.assignedSpot).isOccupied
            /\ SpotAt(floors', last.ticket.assignedSpot).vehicle = v
            /\ SpotAt(floors', last'.ticket.assignedSpot).vehicle = v]_vars

\* C17 witness: the two latest tickets are stored for the same vehicle, the second
\* returned by the last call
C17_Witness ==
    /\ last.op = "park" /\ last.ticket # NoTicket
    /\ unparked = {}
    /\ Len(issued) >= 2
    /\ issued[Len(issued)] = last.ticket.ticketId
    /\ issued[Len(issued) - 1] \in DOMAIN tickets
    /\ tickets[issued[Len(issued) - 1]].vehicle = last.vehicle
    /\ tickets[issued[Len(issued) - 1]].assignedSpot # last.ticket.assignedSpot

\* C18: unparkVehicle of the id a successful parkVehicle has just returned restores
\* the spots and the ticket map to their values before the park, the counter being
\* one more; the same park repeated then gets the same spot.
C18_ParkUnparkRoundTrip ==
    [][\A v \in Vehicles, t \in Clock :
          (last'.op = "park" /\ last'.vehicle = v /\ last'.ticket # NoTicket
             /\ ParkVehicle(v, t)) =>
            /\ counter' = counter + 1
            /\ \A t2 \in Clock :
                 \A u \in {unparkVehicle(floors', tickets', t2, last'.ticket.ticketId)} :
                    /\ u.floors = floors
                    /\ u.tickets = tickets
                    /\ u.fee # -1
                    /\ parkVehicle(u.floors, u.tickets, counter', t, v).ticket.assignedSpot
                         = last'.ticket.assignedSpot]_vars

\* C18 witness: the ticket issued last has been unparked by the last call, with
\* other tickets stored
C18_Witness ==
    /\ last.op = "unpark" /\ last.fee # -1
    /\ Len(issued) >= 2
    /\ last.ticketId = issued[Len(issued)]
    /\ last.ticketId \in unparked
    /\ DOMAIN tickets # {}

\* the spot ids of the lot fl are pairwise distinct
UniqueSpotIds(fl) ==
    \A f, g \in 1..Len(fl) :
        \A i \in 1..Len(fl[f].spots), j \in 1..Len(fl[g].spots) :
            <<f, i>> # <<g, j>> => fl[f].spots[i].spotId # fl[g].spots[j].spotId

\* C19 as stated: with initializeFloors callable any number of times, no two spots of
\* the lot share a spot id, and once the lot has floors its floors stay the same.
C19_UniqueIdsFixedFloors ==
    [][/\ UniqueSpotIds(floors')
       /\ floors # <<>> => SameLayout(floors, floors')]_vars

====
